---- MODULE Spec2Model ----
(***************************************************************************)
(* A model of simple-websocket-server: the frame codec of src/packet.rs    *)
(* (serialize, read_metadata, read_payload, read) as operators over byte   *)
(* sequences, and the Worker / channel / Coordinator state machine of      *)
(* src/main.rs (client, server, main).                                     *)
(***************************************************************************)
EXTENDS Integers, Sequences, FiniteSets, TLC

(***************************************************************************)
(* Bytes and bit operations.                                               *)
(***************************************************************************)
Byte == 0..255

RECURSIVE XorBits(_, _, _)
XorBits(a, b, n) ==
    IF n = 0 THEN 0
    ELSE ((a + b) % 2) + 2 * XorBits(a \div 2, b \div 2, n - 1)

\* u8 ^ u8
Xor(a, b) == XorBits(a, b, 8)

\* payload[i] ^= mask[i % 4] for i in 0..len (packet.rs 104-106, 166-168)
ApplyMask(mask, payload) ==
    [i \in 1..Len(payload) |-> Xor(payload[i], mask[((i - 1) % 4) + 1])]

\* s[from+1 .. from+n] of a byte sequence (what read_exact hands out)
Slice(s, from, n) == [i \in 1..n |-> s[from + i]]

(***************************************************************************)
(* Opcode and its conversions.                                             *)
(***************************************************************************)
Opcode == {"Continuation", "Text", "Binary", "Close", "Ping", "Pong"}

\* impl From<Opcode> for u8
OpcodeToU8(opcode) ==
    CASE opcode = "Continuation" -> 0
      [] opcode = "Text" -> 1
      [] opcode = "Binary" -> 2
      [] opcode = "Close" -> 8
      [] opcode = "Ping" -> 9
      [] opcode = "Pong" -> 10

\* impl From<u8> for Opcode; "Unreachable" stands for the unreachable!() arm
U8ToOpcode(n) ==
    CASE n = 0 -> "Continuation"
      [] n = 1 -> "Text"
      [] n = 2 -> "Binary"
      [] n = 8 -> "Close"
      [] n = 9 -> "Ping"
      [] n = 10 -> "Pong"
      [] OTHER -> "Unreachable"

(***************************************************************************)
(* String::from_utf8: the well-formed UTF-8 byte sequences.                *)
(***************************************************************************)
IsCont(b) == b >= 128 /\ b <= 191

\* the length of the sequence a lead byte opens (0: not a lead byte)
Utf8Width(b) ==
    IF b >= 194 /\ b <= 223 THEN 2
    ELSE IF b >= 224 /\ b <= 239 THEN 3
    ELSE IF b >= 240 /\ b <= 244 THEN 4
    ELSE 0

\* the second byte a lead byte admits
Utf8Second(b, b2) ==
    CASE b = 224 -> b2 >= 160 /\ b2 <= 191
      [] b = 237 -> b2 >= 128 /\ b2 <= 159
      [] b = 240 -> b2 >= 144 /\ b2 <= 191
      [] b = 244 -> b2 >= 128 /\ b2 <= 143
      [] OTHER -> IsCont(b2)

\* every byte is ASCII, a lead byte followed by the continuation bytes it
\* needs, or a continuation byte of the lead byte before it
Utf8Valid(s) ==
    \A i \in 1..Len(s) :
        LET b == s[i]
        IN  \/ b <= 127
            \/ /\ Utf8Width(b) > 0
               /\ i + Utf8Width(b) - 1 <= Len(s)
               /\ Utf8Second(b, s[i + 1])
               /\ \A j \in (i + 2)..(i + Utf8Width(b) - 1) : IsCont(s[j])
            \/ /\ IsCont(b)
               /\ \E d \in 1..3 :
                     /\ i - d >= 1
                     /\ Utf8Width(s[i - d]) > d
                     /\ \A j \in (i - d + 1)..(i - 1) : IsCont(s[j])

(***************************************************************************)
(* serialize (packet.rs 89-114).  The result is the byte vector, or the    *)
(* todo!() panic of the masked branch for len >= 126.                      *)
(***************************************************************************)
NoMask == <<>>

\* `len as u8`: the low 8 bits of the length
AsU8(n) == n % 256

\* serialize with the fin bit left clear
serialize_nofin(opcode, mask, payload) ==
    LET len == Len(payload)
        b0 == OpcodeToU8(opcode)
    IN  IF mask # NoMask
        THEN IF len < 126
             THEN [tag |-> "Ok",
                   bytes |-> <<b0, 128 + AsU8(len)>> \o mask \o ApplyMask(mask, payload)]
             ELSE [tag |-> "Panic", bytes |-> <<>>]
        ELSE [tag |-> "Ok", bytes |-> <<b0, AsU8(len)>> \o payload]

serialize(opcode, mask, payload) ==
    LET len == Len(payload)
        b0 == 128 + OpcodeToU8(opcode)
    IN  IF mask # NoMask
        THEN IF len < 126
             THEN [tag |-> "Ok",
                   bytes |-> <<b0, 128 + AsU8(len)>> \o mask \o ApplyMask(mask, payload)]
             ELSE [tag |-> "Panic", bytes |-> <<>>]
        ELSE [tag |-> "Ok", bytes |-> <<b0, AsU8(len)>> \o payload]

(***************************************************************************)
(* read_metadata (packet.rs 116-153).  pos is the number of bytes of the   *)
(* source already consumed.  A 64-bit length is kept as its 8 bytes; the   *)
(* value is formed only when it fits the model's integers, any larger      *)
(* value being a length no source of the model can supply (HugeLen).       *)
(***************************************************************************)
HugeLen == 1000000

\* u16::from_be_bytes
U16FromBe(b) == b[1] * 256 + b[2]

\* 0x7FFF_FFFF_FFFF_FFFF < u64::from_be_bytes(b)
U64Oversized(b) == b[1] >= 128

\* u64::from_be_bytes(b), saturated at HugeLen
U64FromBe(b) ==
    IF \E i \in 1..5 : b[i] # 0 THEN HugeLen
    ELSE LET v == (b[6] * 256 + b[7]) * 256 + b[8]
         IN  IF v > HugeLen THEN HugeLen ELSE v

NoMeta == [fin |-> FALSE, opcode |-> "Continuation", masked |-> FALSE, len |-> 0]

MetaErr(e, pos) == [tag |-> "Err", err |-> e, meta |-> NoMeta, pos |-> pos]

read_metadata(bytes, pos) ==
    IF Len(bytes) < pos + 2 THEN MetaErr("IO", Len(bytes))
    ELSE LET b0 == bytes[pos + 1]
             b1 == bytes[pos + 2]
             fin == b0 \div 128 # 0
             opcode == U8ToOpcode(b0 % 16)
             masked == b1 \div 128 # 0
             len == b1 % 128
         IN  IF (b0 \div 16) % 8 # 0 THEN MetaErr("ReservedBits", pos + 2)
             ELSE IF opcode = "Unreachable"
             THEN [tag |-> "Panic", err |-> "unreachable", meta |-> NoMeta, pos |-> pos + 2]
             ELSE IF len = 126
             THEN IF Len(bytes) < pos + 4 THEN MetaErr("IO", Len(bytes))
                  ELSE [tag |-> "Ok", err |-> "",
                        meta |-> [fin |-> fin, opcode |-> opcode, masked |-> masked,
                                  len |-> U16FromBe(Slice(bytes, pos + 2, 2))],
                        pos |-> pos + 4]
             ELSE IF len = 127
             THEN IF Len(bytes) < pos + 10 THEN MetaErr("IO", Len(bytes))
                  ELSE IF U64Oversized(Slice(bytes, pos + 2, 8))
                  THEN MetaErr("Length", pos + 10)
                  ELSE [tag |-> "Ok", err |-> "",
                        meta |-> [fin |-> fin, opcode |-> opcode, masked |-> masked,
                                  len |-> U64FromBe(Slice(bytes, pos + 2, 8))],
                        pos |-> pos + 10]
             ELSE [tag |-> "Ok", err |-> "",
                   meta |-> [fin |-> fin, opcode |-> opcode, masked |-> masked,
                             len |-> len],
                   pos |-> pos + 2]

(***************************************************************************)
(* read_payload (packet.rs 155-175).                                       *)
(***************************************************************************)
PayloadErr(e, pos) == [tag |-> "Err", err |-> e, data |-> <<>>, pos |-> pos]

\* read_payload without the XOR of lines 166-168
read_payload_nounmask(metadata, bytes, pos) ==
    LET len == metadata.len
    IN  IF metadata.masked
        THEN IF Len(bytes) < pos + 4 THEN PayloadErr("IO", Len(bytes))
             ELSE IF Len(bytes) < pos + 4 + len THEN PayloadErr("IO", Len(bytes))
             ELSE [tag |-> "Ok", err |-> "", data |-> Slice(bytes, pos + 4, len),
                   pos |-> pos + 4 + len]
        ELSE IF Len(bytes) < pos + len THEN PayloadErr("IO", Len(bytes))
             ELSE [tag |-> "Ok", err |-> "", data |-> Slice(bytes, pos, len),
                   pos |-> pos + len]

read_payload(metadata, bytes, pos) ==
    LET len == metadata.len
    IN  IF metadata.masked
        THEN IF Len(bytes) < pos + 4 THEN PayloadErr("IO", Len(bytes))
             ELSE IF Len(bytes) < pos + 4 + len THEN PayloadErr("IO", Len(bytes))
             ELSE [tag |-> "Ok", err |-> "",
                   data |-> ApplyMask(Slice(bytes, pos, 4), Slice(bytes, pos + 4, len)),
                   pos |-> pos + 4 + len]
        ELSE IF Len(bytes) < pos + len THEN PayloadErr("IO", Len(bytes))
             ELSE [tag |-> "Ok", err |-> "", data |-> Slice(bytes, pos, len),
                   pos |-> pos + len]

(***************************************************************************)
(* Packet (packet.rs 11-15) and read (packet.rs 177-211).  A String is its *)
(* UTF-8 bytes; Option<String> is a record with a `some` flag.             *)
(***************************************************************************)
None == [some |-> FALSE, text |-> <<>>]

Some(t) == [some |-> TRUE, text |-> t]

NoPacket == [type |-> "None", text |-> <<>>, status |-> 0, reason |-> None]

PacketText(t) == [type |-> "Text", text |-> t, status |-> 0, reason |-> None]

PacketClose(status_code, reason) ==
    [type |-> "Close", text |-> <<>>, status |-> status_code, reason |-> reason]

ReadErr(tag, e, pos) == [tag |-> tag, err |-> e, packet |-> NoPacket, used |-> pos]

\* the loop of lines 183-192 keeping only the payload of the frame it reads
RECURSIVE read_continuation_last(_, _, _)
read_continuation_last(bytes, pos, payload) ==
    LET m == read_metadata(bytes, pos)
    IN  IF m.tag # "Ok"
        THEN [tag |-> m.tag, err |-> m.err, payload |-> payload, meta |-> NoMeta,
              pos |-> m.pos]
        ELSE IF m.meta.opcode # "Continuation"
        THEN [tag |-> "Err", err |-> "Opcode", payload |-> payload, meta |-> NoMeta,
              pos |-> m.pos]
        ELSE LET p == read_payload(m.meta, bytes, m.pos)
             IN  IF p.tag # "Ok"
                 THEN [tag |-> p.tag, err |-> p.err, payload |-> payload,
                       meta |-> NoMeta, pos |-> p.pos]
                 ELSE IF m.meta.fin
                 THEN [tag |-> "Ok", err |-> "", payload |-> p.data,
                       meta |-> m.meta, pos |-> p.pos]
                 ELSE read_continuation_last(bytes, p.pos, p.data)

\* the loop of lines 183-192: the frames after a first frame with fin = false
RECURSIVE read_continuation(_, _, _)
read_continuation(bytes, pos, payload) ==
    LET m == read_metadata(bytes, pos)
    IN  IF m.tag # "Ok"
        THEN [tag |-> m.tag, err |-> m.err, payload |-> payload, meta |-> NoMeta,
              pos |-> m.pos]
        ELSE IF m.meta.opcode # "Continuation"
        THEN [tag |-> "Err", err |-> "Opcode", payload |-> payload, meta |-> NoMeta,
              pos |-> m.pos]
        ELSE LET p == read_payload(m.meta, bytes, m.pos)
             IN  IF p.tag # "Ok"
                 THEN [tag |-> p.tag, err |-> p.err, payload |-> payload,
                       meta |-> NoMeta, pos |-> p.pos]
                 ELSE IF m.meta.fin
                 THEN [tag |-> "Ok", err |-> "", payload |-> payload \o p.data,
                       meta |-> m.meta, pos |-> p.pos]
                 ELSE read_continuation(bytes, p.pos, payload \o p.data)

\* the match of lines 195-210 on the first frame's opcode; metadata is the
\* metadata of the last frame read
interpret(opcode, metadata, payload, pos) ==
    CASE opcode = "Text" ->
            IF Utf8Valid(payload)
            THEN [tag |-> "Ok", err |-> "", packet |-> PacketText(payload), used |-> pos]
            ELSE ReadErr("Err", "Utf8", pos)
      [] opcode = "Close" ->
            IF metadata.len > Len(payload) THEN ReadErr("Panic", "slice", pos)
            ELSE IF metadata.len < 2 THEN ReadErr("Panic", "split_at", pos)
            ELSE LET rest == Slice(payload, 2, metadata.len - 2)
                 IN  [tag |-> "Ok", err |-> "",
                      packet |-> PacketClose(U16FromBe(Slice(payload, 0, 2)),
                                             IF Utf8Valid(rest) /\ rest # <<>>
                                             THEN Some(rest) ELSE None),
                      used |-> pos]
      [] opcode \in {"Binary", "Ping", "Pong"} -> ReadErr("Panic", "todo", pos)
      [] OTHER -> ReadErr("Panic", "unreachable", pos)

read(bytes) ==
    LET m == read_metadata(bytes, 0)
    IN  IF m.tag # "Ok" THEN ReadErr(m.tag, m.err, m.pos)
        ELSE LET p == read_payload(m.meta, bytes, m.pos)
             IN  IF p.tag # "Ok" THEN ReadErr(p.tag, p.err, p.pos)
                 ELSE IF m.meta.fin
                 THEN interpret(m.meta.opcode, m.meta, p.data, p.pos)
                 ELSE LET r == read_continuation(bytes, p.pos, p.data)
                      IN  IF r.tag # "Ok" THEN ReadErr(r.tag, r.err, r.pos)
                          ELSE interpret(m.meta.opcode, r.meta, r.payload, r.pos)

(***************************************************************************)
(* The upgrade request as client() sees it (main.rs 30-67): the tokens of  *)
(* the request line and the header map.  The peers of the model send one   *)
(* of these sample requests.                                               *)
(***************************************************************************)
SampleKey == "dGhlIHNhbXBsZSBub25jZQ=="

GoodHeaders ==
    [Connection |-> "Upgrade", Upgrade |-> "websocket",
     SecWebSocketVersion |-> "13", SecWebSocketKey |-> SampleKey]

RequestOf(name) ==
    CASE name = "valid" -> [tokens |-> <<"GET", "/", "HTTP/1.1">>, headers |-> GoodHeaders]
      [] name = "upper" ->
            [tokens |-> <<"GET", "/", "HTTP/1.1">>,
             headers |-> [GoodHeaders EXCEPT !.Connection = "UPGRADE",
                                             !.Upgrade = "WebSocket"]]
      [] name = "bad_line" ->
            [tokens |-> <<"POST", "/", "HTTP/1.1">>, headers |-> GoodHeaders]
      [] name = "bad_version" ->
            [tokens |-> <<"GET", "/", "HTTP/1.1">>,
             headers |-> [GoodHeaders EXCEPT !.SecWebSocketVersion = "8"]]
      [] name = "no_key" ->
            [tokens |-> <<"GET", "/", "HTTP/1.1">>,
             headers |-> [Connection |-> "Upgrade", Upgrade |-> "websocket",
                          SecWebSocketVersion |-> "13"]]

Requests == {"valid", "upper", "bad_line", "bad_version", "no_key"}

\* str::to_lowercase on the header values of the sample requests
to_lowercase(v) ==
    CASE v \in {"Upgrade", "UPGRADE", "upgrade"} -> "upgrade"
      [] v \in {"websocket", "WebSocket", "WEBSOCKET"} -> "websocket"
      [] OTHER -> v

\* main.rs 41-66: TRUE when no unwrap, index or assert_eq! of the request
\* validation panics
validate(request) ==
    /\ Len(request.tokens) >= 3
    /\ request.tokens[1] = "GET"
    /\ request.tokens[2] = "/"
    /\ request.tokens[3] = "HTTP/1.1"
    /\ {"Connection", "Upgrade", "SecWebSocketVersion", "SecWebSocketKey"}
           \subseteq DOMAIN request.headers
    /\ to_lowercase(request.headers.Connection) = "upgrade"
    /\ to_lowercase(request.headers.Upgrade) = "websocket"
    /\ request.headers.SecWebSocketVersion = "13"

\* handshake.rs 5-10: base64(SHA-1(key ++ GUID)); known for the key of the
\* repository's test, a token determined by the key otherwise
handshake(key) ==
    IF key = SampleKey THEN "s3pPLMBiTxaQ9kYGzzhZRbK+xOo=" ELSE "accept:" \o key

(***************************************************************************)
(* The codec on its own: an input (opcode, mask key, payload) is encoded   *)
(* by serialize or laid out as a sequence of frames, and the bytes are     *)
(* decoded by read.                                                        *)
(***************************************************************************)
VARIABLES
    cstage,     \* "idle", "input", "encoded", "roundtrip", "framed", "reassembled"
    cin,        \* the input: opcode, mask key, payload
    cenc,       \* serialize of the input with its mask key, and with none
    cframes,    \* the frames laid out for read, in order
    cdamage,    \* the header damage done to one of the frames
    cout,       \* read of the bytes under test
    cref        \* read of the bytes they are compared with

codecvars == <<cstage, cin, cenc, cframes, cdamage, cout, cref>>

NoInput == [opcode |-> "Text", mask |-> NoMask, payload |-> <<>>]

NoEnc == [tag |-> "None", bytes |-> <<>>]

NoDamage == [k |-> 0, rsv |-> 0, opnib |-> -1, over |-> FALSE]

NoResult == [tag |-> "None", err |-> "", packet |-> NoPacket, used |-> 0]

\* the codec at rest, as it is throughout the runs of the server
CodecIdle ==
    /\ cstage = "idle"
    /\ cin = NoInput
    /\ cenc = <<NoEnc, NoEnc>>
    /\ cframes = <<>>
    /\ cdamage = NoDamage
    /\ cout = NoResult
    /\ cref = NoResult

(***************************************************************************)
(* The server of src/main.rs: main accepts connections and spawns one      *)
(* client() thread (Worker) per connection; the Workers send Comm values   *)
(* on one mpsc channel; one server() thread (Coordinator) receives them.   *)
(***************************************************************************)
MaxConn == 2

NumIPs == 2

MaxReads == 3

Conns == 1..MaxConn

IPs == 1..NumIPs

NoIp == 0

\* one frame on the wire, as read_metadata and read_payload parse it
MakeFrame(fin, opcode, mask, payload) ==
    LET len == Len(payload)
        b0 == (IF fin THEN 128 ELSE 0) + OpcodeToU8(opcode)
        m == IF mask # NoMask THEN 128 ELSE 0
        body == IF mask # NoMask THEN mask \o ApplyMask(mask, payload) ELSE payload
    IN  IF len < 126 THEN <<b0, m + len>> \o body
        ELSE <<b0, m + 126, len \div 256, len % 256>> \o body

\* a payload of n bytes
Fill(n) == [i \in 1..n |-> 97]

\* the byte streams a peer of the model may have sent for one packet::read
SampleMask == <<1, 2, 3, 4>>

TextFrame == serialize("Text", SampleMask, <<97>>).bytes

CloseFrame == serialize("Close", SampleMask, <<3, 232>>).bytes

ReservedFrame == <<193, 0>>

PingFrame == <<137, 0>>

LongTextFrame == MakeFrame(TRUE, "Text", SampleMask, Fill(126))

Inputs == {TextFrame, CloseFrame, ReservedFrame, PingFrame, LongTextFrame}

\* packet::read on each of them
Decoded == [input \in Inputs |-> read(input)]

VARIABLES
    wpc,        \* wpc[c]: where the Worker of connection c is in client()
    peerIp,     \* peerIp[c]: stream.peer_addr().ip() of connection c
    peer,       \* peer[c]: "open", or "gone" once the peer closed or reset
    nread,      \* the packet::read calls, of all Workers, that found input
    shut,       \* shut[c]: stream.shutdown(Shutdown::Both) has succeeded
    chan,       \* the channel: Comm values sent and not yet received
    server,     \* "running", or "panicked" once an unwrap in server() failed
    crash,      \* the command and call at which server() panicked
    clients,    \* server()'s HashMap, as a set of <<ip, connection>> entries
    out,        \* out[c]: the writes made to the socket of c, in order
    sent,       \* sent[c]: the kinds of the commands the Worker of c sent
    handled,    \* handled[c]: the kinds of the commands of c server() received
    texts       \* texts[c]: the Text messages the Worker of c decoded, in order

servervars == <<wpc, peerIp, peer, nread, shut, chan, server, crash, clients, out,
                sent, handled, texts>>

vars == <<servervars, codecvars>>

\* enum Comm (main.rs 16-22)
Comm(kind, c, accept, status_code, reason, text) ==
    [kind |-> kind, conn |-> c, accept |-> accept, status |-> status_code,
     reason |-> reason, text |-> text]

NoCrash == [kind |-> "none", conn |-> 0, call |-> "none"]

\* one write on a socket: the handshake response of write! (lines 99-107) or
\* the frame of one write_all (lines 124-127, 133-136)
Response(accept) == [what |-> "response", accept |-> accept, bytes |-> <<>>]

Frame(bytes) == [what |-> "frame", accept |-> "", bytes |-> bytes]

\* HashMap::contains_key, insert, remove
contains_key(map, k) == \E e \in map : e[1] = k

insert(map, k, v) == {e \in map : e[1] # k} \cup {<<k, v>>}

remove(map, k) == {e \in map : e[1] # k}

Init ==
    /\ wpc = [c \in Conns |-> "none"]
    /\ peerIp = [c \in Conns |-> NoIp]
    /\ peer = [c \in Conns |-> "open"]
    /\ nread = 0
    /\ shut = [c \in Conns |-> FALSE]
    /\ chan = <<>>
    /\ server = "running"
    /\ crash = NoCrash
    /\ clients = {}
    /\ out = [c \in Conns |-> <<>>]
    /\ sent = [c \in Conns |-> <<>>]
    /\ handled = [c \in Conns |-> <<>>]
    /\ texts = [c \in Conns |-> <<>>]
    /\ CodecIdle

(***************************************************************************)
(* main (main.rs 149-154): accept the next connection, spawn its Worker.   *)
(* Connections are numbered in the order of their accept; a new peer       *)
(* address is the least one not seen yet.                                  *)
(***************************************************************************)
Accept(c, ip) ==
    /\ wpc[c] = "none"
    /\ \A d \in Conns : d < c => wpc[d] # "none"
    /\ \A j \in IPs : j < ip => \E d \in Conns : peerIp[d] = j
    /\ wpc' = [wpc EXCEPT ![c] = "connect"]
    /\ peerIp' = [peerIp EXCEPT ![c] = ip]
    /\ UNCHANGED <<peer, nread, shut, chan, server, crash, clients, out, sent,
                   handled>>
    /\ UNCHANGED <<texts, codecvars>>

\* the peer closes or resets its end of the connection
PeerClose(c) ==
    /\ wpc[c] # "none" /\ peer[c] = "open"
    /\ peer' = [peer EXCEPT ![c] = "gone"]
    /\ UNCHANGED <<wpc, peerIp, nread, shut, chan, server, crash, clients, out, sent,
                   handled>>
    /\ UNCHANGED <<texts, codecvars>>

(***************************************************************************)
(* client (main.rs 24-82), the Worker of connection c.  What a read        *)
(* returns is what the peer had sent by then: input that arrived before    *)
(* the peer left or the socket was shut down stays readable (BufReader),   *)
(* so a read may find input in any state; it finds the stream ended only   *)
(* once the peer is gone or the socket is shut down.                       *)
(***************************************************************************)
\* send as a channel that delivers the newest command first would behave
send_front(c, comm, next) ==
    IF server = "panicked"
    THEN /\ wpc' = [wpc EXCEPT ![c] = "panicked"]
         /\ UNCHANGED <<chan, sent>>
    ELSE /\ chan' = <<comm>> \o chan
         /\ sent' = [sent EXCEPT ![c] = Append(@, comm.kind)]
         /\ wpc' = [wpc EXCEPT ![c] = next]

\* sender.send(comm).unwrap(): Err, hence a panic, once the receiver is gone
send(c, comm, next) ==
    IF server = "panicked"
    THEN /\ wpc' = [wpc EXCEPT ![c] = "panicked"]
         /\ UNCHANGED <<chan, sent>>
    ELSE /\ chan' = Append(chan, comm)
         /\ sent' = [sent EXCEPT ![c] = Append(@, comm.kind)]
         /\ wpc' = [wpc EXCEPT ![c] = next]

\* lines 26-28: send Connect, then set_nodelay(true).unwrap(), which can fail
\* only on a connection whose peer is gone
ClientConnect(c) ==
    /\ wpc[c] = "connect"
    /\ \E nodelay_ok \in BOOLEAN :
          /\ ~nodelay_ok => peer[c] = "gone"
          /\ send(c, Comm("Connect", c, "", 0, None, <<>>),
                  IF nodelay_ok THEN "request" ELSE "panicked")
    /\ UNCHANGED <<peerIp, peer, nread, shut, server, crash, clients, out, handled>>
    /\ UNCHANGED <<texts, codecvars>>

Ended(c) == peer[c] = "gone" \/ shut[c]

\* ClientRequest with the Handshake sent before the request is validated
ClientRequest_sendfirst(c, q) ==
    /\ wpc[c] = "request"
    /\ send(c, Comm("Handshake", c, "", 0, None, <<>>),
            IF validate(RequestOf(q)) THEN "loop" ELSE "rejected")
    /\ UNCHANGED <<peerIp, peer, nread, shut, server, crash, clients, out, handled>>
    /\ UNCHANGED <<texts, codecvars>>

\* lines 29-71 with the request q received: validate it, compute the accept
\* token, send Handshake; "rejected" is the panic of a failed validation
ClientRequest(c, q) ==
    /\ wpc[c] = "request"
    /\ IF validate(RequestOf(q))
       THEN send(c, Comm("Handshake", c,
                         handshake(RequestOf(q).headers.SecWebSocketKey),
                         0, None, <<>>), "loop")
       ELSE /\ wpc' = [wpc EXCEPT ![c] = "rejected"]
            /\ UNCHANGED <<chan, sent>>
    /\ UNCHANGED <<peerIp, peer, nread, shut, server, crash, clients, out, handled>>
    /\ UNCHANGED <<texts, codecvars>>

\* lines 31-39 on a stream that ended before the blank line: read_line
\* returns Err (unwrap panics) or Ok(0) (the assert! panics)
ClientRequestEof(c) ==
    /\ wpc[c] = "request"
    /\ Ended(c)
    /\ wpc' = [wpc EXCEPT ![c] = "panicked"]
    /\ UNCHANGED <<peerIp, peer, nread, shut, chan, server, crash, clients, out, sent,
                   handled>>
    /\ UNCHANGED <<texts, codecvars>>

\* ClientLoop with the Worker writing the echo to its socket itself
ClientLoop_direct(c, input) ==
    /\ wpc[c] = "loop"
    /\ nread < MaxReads
    /\ nread' = nread + 1
    /\ LET r == Decoded[input]
       IN  CASE r.tag = "Ok" /\ r.packet.type = "Text" ->
                  /\ texts' = [texts EXCEPT ![c] = Append(@, r.packet.text)]
                  /\ out' = [out EXCEPT ![c] =
                                Append(@, Frame(serialize("Text", NoMask,
                                                          r.packet.text).bytes))]
                  /\ UNCHANGED <<wpc, chan, sent>>
             [] r.tag = "Ok" /\ r.packet.type = "Close" ->
                  /\ send(c, Comm("Close", c, "", r.packet.status, r.packet.reason,
                                  <<>>), "loop")
                  /\ UNCHANGED <<out, texts>>
             [] r.tag = "Err" ->
                  /\ wpc' = [wpc EXCEPT ![c] = "done"]
                  /\ UNCHANGED <<chan, sent, out, texts>>
             [] r.tag = "Panic" ->
                  /\ wpc' = [wpc EXCEPT ![c] = "panicked"]
                  /\ UNCHANGED <<chan, sent, out, texts>>
    /\ UNCHANGED <<peerIp, peer, shut, server, crash, clients, handled>>
    /\ UNCHANGED codecvars

\* lines 73-81: one iteration of `while let Ok(packet) = packet::read(..)`
\* with the bytes `input` received
ClientLoop(c, input) ==
    /\ wpc[c] = "loop"
    /\ nread < MaxReads
    /\ nread' = nread + 1
    /\ LET r == Decoded[input]
       IN  CASE r.tag = "Ok" /\ r.packet.type = "Text" ->
                  /\ texts' = [texts EXCEPT ![c] = Append(@, r.packet.text)]
                  /\ send(c, Comm("Echo", c, "", 0, None, r.packet.text), "loop")
             [] r.tag = "Ok" /\ r.packet.type = "Close" ->
                  /\ send(c, Comm("Close", c, "", r.packet.status, r.packet.reason,
                                  <<>>), "loop")
                  /\ UNCHANGED texts
             [] r.tag = "Err" ->
                  /\ wpc' = [wpc EXCEPT ![c] = "done"]
                  /\ UNCHANGED <<chan, sent, texts>>
             [] r.tag = "Panic" ->
                  /\ wpc' = [wpc EXCEPT ![c] = "panicked"]
                  /\ UNCHANGED <<chan, sent, texts>>
    /\ UNCHANGED <<peerIp, peer, shut, server, crash, clients, out, handled>>
    /\ UNCHANGED codecvars

\* line 73 on a stream that ended: read returns Err(IO), the loop ends
ClientLoopEof(c) ==
    /\ wpc[c] = "loop"
    /\ Ended(c)
    /\ wpc' = [wpc EXCEPT ![c] = "done"]
    /\ UNCHANGED <<peerIp, peer, nread, shut, chan, server, crash, clients, out, sent,
                   handled>>
    /\ UNCHANGED <<texts, codecvars>>

(***************************************************************************)
(* server (main.rs 84-141), the Coordinator: one action per arm of the     *)
(* match, each the whole handling of the command at the head of the        *)
(* channel.  Every fallible call is unwrapped, so its failure ends the     *)
(* thread.  A write on a socket already shut down fails; peer_addr,        *)
(* shutdown and a write may fail on a connection whose peer is gone;       *)
(* flush on a TcpStream does nothing.                                      *)
(***************************************************************************)
\* receiver.recv().unwrap() hands over the head of the channel
recv(kind) ==
    /\ server = "running"
    /\ chan # <<>>
    /\ Head(chan).kind = kind
    /\ chan' = Tail(chan)
    /\ handled' = [handled EXCEPT ![Head(chan).conn] = Append(@, kind)]

panic(comm, call) ==
    /\ server' = "panicked"
    /\ crash' = [kind |-> comm.kind, conn |-> comm.conn, call |-> call]

\* the results a call on the socket of c can have
CallResults(c) == IF peer[c] = "gone" THEN {"Ok", "Err"} ELSE {"Ok"}

\* a write that does not fail on a socket already shut down
WriteResults_open(c) == CallResults(c)

WriteResults(c) == IF shut[c] THEN {"Err"} ELSE CallResults(c)

\* the payload of the Close frame (lines 111-123)
CloseBuffer(status_code, reason) ==
    <<status_code \div 256, status_code % 256>>
        \o (IF reason.some THEN reason.text ELSE <<>>)

\* lines 90-97
ServerConnect ==
    /\ recv("Connect")
    /\ LET comm == Head(chan)
           c == comm.conn
           ip == peerIp[c]
       IN  \E addr \in CallResults(c), down \in CallResults(c) :
              IF addr = "Err"
              THEN /\ panic(comm, "peer_addr")
                   /\ UNCHANGED <<shut, clients>>
              ELSE IF contains_key(clients, ip)
              THEN IF down = "Err"
                   THEN /\ panic(comm, "shutdown")
                        /\ UNCHANGED <<shut, clients>>
                   ELSE /\ shut' = [shut EXCEPT ![c] = TRUE]
                        /\ UNCHANGED <<server, crash, clients>>
              ELSE /\ clients' = insert(clients, ip, c)
                   /\ UNCHANGED <<shut, server, crash>>
    /\ UNCHANGED <<wpc, peerIp, peer, nread, out, sent>>
    /\ UNCHANGED <<texts, codecvars>>

\* lines 98-109
ServerHandshake ==
    /\ recv("Handshake")
    /\ LET comm == Head(chan)
           c == comm.conn
       IN  \E written \in WriteResults(c) :
              IF written = "Err"
              THEN /\ panic(comm, "write")
                   /\ UNCHANGED out
              ELSE /\ out' = [out EXCEPT ![c] = Append(@, Response(comm.accept))]
                   /\ UNCHANGED <<server, crash>>
    /\ UNCHANGED <<wpc, peerIp, peer, nread, shut, clients, sent>>
    /\ UNCHANGED <<texts, codecvars>>

\* lines 110-131
ServerClose ==
    /\ recv("Close")
    /\ LET comm == Head(chan)
           c == comm.conn
           frame == serialize("Close", NoMask, CloseBuffer(comm.status, comm.reason))
       IN  \E written \in WriteResults(c), down \in CallResults(c),
              addr \in CallResults(c) :
              IF written = "Err"
              THEN /\ panic(comm, "write")
                   /\ UNCHANGED <<shut, clients, out>>
              ELSE /\ out' = [out EXCEPT ![c] = Append(@, Frame(frame.bytes))]
                   /\ IF down = "Err"
                      THEN /\ panic(comm, "shutdown")
                           /\ UNCHANGED <<shut, clients>>
                      ELSE /\ shut' = [shut EXCEPT ![c] = TRUE]
                           /\ IF addr = "Err"
                              THEN /\ panic(comm, "peer_addr")
                                   /\ UNCHANGED clients
                              ELSE /\ clients' = remove(clients, peerIp[c])
                                   /\ UNCHANGED <<server, crash>>
    /\ UNCHANGED <<wpc, peerIp, peer, nread, sent>>
    /\ UNCHANGED <<texts, codecvars>>

\* lines 132-138
ServerEcho ==
    /\ recv("Echo")
    /\ LET comm == Head(chan)
           c == comm.conn
           frame == serialize("Text", NoMask, comm.text)
       IN  \E written \in WriteResults(c) :
              IF written = "Err"
              THEN /\ panic(comm, "write")
                   /\ UNCHANGED out
              ELSE /\ out' = [out EXCEPT ![c] = Append(@, Frame(frame.bytes))]
                   /\ UNCHANGED <<server, crash>>
    /\ UNCHANGED <<wpc, peerIp, peer, nread, shut, clients, sent>>
    /\ UNCHANGED <<texts, codecvars>>

Next ==
    \/ \E c \in Conns, ip \in IPs : Accept(c, ip)
    \/ \E c \in Conns : PeerClose(c)
    \/ \E c \in Conns : ClientConnect(c)
    \/ \E c \in Conns, q \in Requests : ClientRequest(c, q)
    \/ \E c \in Conns : ClientRequestEof(c)
    \/ \E c \in Conns, input \in Inputs : ClientLoop(c, input)
    \/ \E c \in Conns : ClientLoopEof(c)
    \/ ServerConnect
    \/ ServerHandshake
    \/ ServerClose
    \/ ServerEcho

Spec == Init /\ [][Next]_vars

(***************************************************************************)
(* The codec specification.  Init draws the input; Serialize and           *)
(* ReadEncoded apply serialize and read to it; Layout writes the payload   *)
(* of a Text or Close input as one or more frames (the first with the      *)
(* input's opcode, the others                                              *)
(* Continuation, only the last with fin set), Damage rewrites the header   *)
(* of one of them, and ReadFrames applies read to their concatenation.     *)
(***************************************************************************)
MaxPayloadLen == 2

MaxFrags == 3

MaxDamagedLen == 1
MaxDamagedFrags == 2

ByteSamples == {97, 195, 169}

ShortPayloads == UNION {[1..n -> ByteSamples] : n \in 0..MaxPayloadLen}

LongPayloads == {Fill(n) : n \in {125, 126, 127, 128, 300}}

ExtraPayloads ==
    {<<255>>, <<226, 130, 172>>, <<240, 159, 152, 128>>, <<3, 232>>,
     <<3, 233, 98, 121, 101>>}

Payloads == ShortPayloads \cup LongPayloads \cup ExtraPayloads

Masks == {NoMask, SampleMask, <<132, 29, 59, 30>>}

CodecInputs == [opcode : Opcode, mask : Masks, payload : Payloads]

InitCodec ==
    /\ wpc = [c \in Conns |-> "none"]
    /\ peerIp = [c \in Conns |-> NoIp]
    /\ peer = [c \in Conns |-> "open"]
    /\ nread = 0
    /\ shut = [c \in Conns |-> FALSE]
    /\ chan = <<>>
    /\ server = "running"
    /\ crash = NoCrash
    /\ clients = {}
    /\ out = [c \in Conns |-> <<>>]
    /\ sent = [c \in Conns |-> <<>>]
    /\ handled = [c \in Conns |-> <<>>]
    /\ texts = [c \in Conns |-> <<>>]
    /\ cstage = "input"
    /\ cin \in CodecInputs
    /\ cenc = <<NoEnc, NoEnc>>
    /\ cframes = <<>>
    /\ cdamage = NoDamage
    /\ cout = NoResult
    /\ cref = NoResult

RECURSIVE Flatten(_)
Flatten(frames) ==
    IF frames = <<>> THEN <<>> ELSE Head(frames) \o Flatten(Tail(frames))

\* serialize the input, with its mask key and with none
Serialize ==
    /\ cstage = "input"
    /\ cstage' = "encoded"
    /\ cenc' = <<serialize(cin.opcode, cin.mask, cin.payload),
                 serialize(cin.opcode, NoMask, cin.payload)>>
    /\ UNCHANGED <<cin, cframes, cdamage, cout, cref>>
    /\ UNCHANGED servervars

\* read what serialize produced
ReadEncoded ==
    /\ cstage = "encoded"
    /\ cenc[1].tag = "Ok"
    /\ cstage' = "roundtrip"
    /\ cout' = read(cenc[1].bytes)
    /\ cref' = read(cenc[2].bytes)
    /\ UNCHANGED <<cin, cenc, cframes, cdamage>>
    /\ UNCHANGED servervars

\* where a payload of length len may be cut into fragments
CutPoints(len) == {k \in 0..len : k <= MaxPayloadLen \/ k = len}

\* the payload in n frames (a long payload in at most two), cut at
\* cuts[1] <= ... <= cuts[n-1], frame i masked with the input's key when
\* masked[i]
Layout(n, cuts, masked) ==
    /\ cstage = "input"
    /\ cin.opcode \in {"Text", "Close"}
    /\ n > 2 => cin.payload \notin LongPayloads
    /\ \A i \in 1..(n - 2) : cuts[i] <= cuts[i + 1]
    /\ cin.mask = NoMask => \A i \in 1..n : ~masked[i]
    /\ LET len == Len(cin.payload)
           from(i) == IF i = 1 THEN 0 ELSE cuts[i - 1]
           to(i) == IF i = n THEN len ELSE cuts[i]
       IN  cframes' =
              [i \in 1..n |->
                 MakeFrame(i = n,
                           IF i = 1 THEN cin.opcode ELSE "Continuation",
                           IF masked[i] THEN cin.mask ELSE NoMask,
                           Slice(cin.payload, from(i), to(i) - from(i)))]
    /\ cstage' = "framed"
    /\ UNCHANGED <<cin, cenc, cdamage, cout, cref>>
    /\ UNCHANGED servervars

\* the header damages: reserved bits set, the opcode bits replaced, the
\* length replaced by a 64-bit length with its top bit set
Damages ==
    {[rsv |-> r, opnib |-> -1, over |-> FALSE] : r \in 1..7}
        \cup {[rsv |-> 4, opnib |-> -1, over |-> TRUE]}
        \cup {[rsv |-> 0, opnib |-> v, over |-> TRUE] : v \in -1..15}
        \cup {[rsv |-> 0, opnib |-> v, over |-> FALSE] : v \in 0..15}

OversizedLength == <<128, 0, 0, 0, 0, 0, 0, 1>>

DamageFrame(frame, d) ==
    LET b0 == frame[1]
        b1 == frame[2]
        nib == IF d.opnib = -1 THEN b0 % 16 ELSE d.opnib
        h0 == (b0 \div 128) * 128 + d.rsv * 16 + nib
        rest == SubSeq(frame, 3, Len(frame))
    IN  IF d.over THEN <<h0, (b1 \div 128) * 128 + 127>> \o OversizedLength \o rest
        ELSE <<h0, b1>> \o rest

Damage(k, d) ==
    /\ cstage = "framed"
    /\ cdamage = NoDamage
    /\ Len(cin.payload) <= MaxDamagedLen
    /\ Len(cframes) <= MaxDamagedFrags
    /\ cin.mask \in {NoMask, SampleMask}
    /\ k \in 1..Len(cframes)
    /\ cframes' = [cframes EXCEPT ![k] = DamageFrame(@, d)]
    /\ cdamage' = [k |-> k, rsv |-> d.rsv, opnib |-> d.opnib, over |-> d.over]
    /\ UNCHANGED <<cstage, cin, cenc, cout, cref>>
    /\ UNCHANGED servervars

\* read the frames, and read the same payload sent as one unmasked frame
ReadFrames ==
    /\ cstage = "framed"
    /\ cstage' = "reassembled"
    /\ cout' = read(Flatten(cframes))
    /\ cref' = read(MakeFrame(TRUE, cin.opcode, NoMask, cin.payload))
    /\ UNCHANGED <<cin, cenc, cframes, cdamage>>
    /\ UNCHANGED servervars

NextCodec ==
    \/ Serialize
    \/ ReadEncoded
    \/ \E n \in 1..MaxFrags :
          \E cuts \in [1..(n - 1) -> CutPoints(Len(cin.payload))],
             masked \in [1..n -> BOOLEAN] : Layout(n, cuts, masked)
    \/ \E k \in 1..MaxFrags, d \in Damages : Damage(k, d)
    \/ ReadFrames

SpecCodec == InitCodec /\ [][NextCodec]_vars

(***************************************************************************)
(* Properties of the Worker / Coordinator model.                           *)
(***************************************************************************)
Registered(c) == \E e \in clients : e[2] = c

\* the Coordinator is about to receive a Connect whose peer IP is registered
DuplicateConnect ==
    /\ server = "running"
    /\ chan # <<>>
    /\ Head(chan).kind = "Connect"
    /\ contains_key(clients, peerIp[Head(chan).conn])

\* C1: the Registry holds at most one entry per peer IP, and every step in
\* which the Coordinator processes Connect for a handle whose peer IP is
\* already registered shuts that handle down, leaves the Registry as it was
\* (the new handle not inserted, the first entry kept) and shuts down no
\* other handle.
C1_DuplicateIpConnect ==
    [][/\ \A e1 \in clients', e2 \in clients' : e1[1] = e2[1] => e1 = e2
       /\ (DuplicateConnect /\ handled' # handled) =>
             /\ shut'[Head(chan).conn]
             /\ clients' = clients
             /\ \A d \in Conns \ {Head(chan).conn} : shut'[d] = shut[d]]_vars

IsPrefix(s, t) == Len(s) <= Len(t) /\ SubSeq(t, 1, Len(s)) = s

\* C2: for every connection the commands the Coordinator has processed are a
\* prefix of the commands its Worker sent, in the order sent, and that order
\* is Connect, then Handshake, then only Echo and Close.
C2_CommandOrdering ==
    \A c \in Conns :
        /\ IsPrefix(handled[c], sent[c])
        /\ \A i \in 1..Len(handled[c]) :
              /\ i = 1 <=> handled[c][i] = "Connect"
              /\ i = 2 <=> handled[c][i] = "Handshake"
              /\ i >= 3 <=> handled[c][i] \in {"Echo", "Close"}

\* C2 witness: one connection has had Connect, Handshake, Echo and Close
\* processed while the commands of another were processed in between
C2_Witness ==
    \E c \in Conns, d \in Conns :
        /\ c # d
        /\ handled[c] = <<"Connect", "Handshake", "Echo", "Close">>
        /\ Len(handled[d]) >= 2

\* C3: a write or shutdown failure while the Coordinator processes a
\* Handshake, Echo or Close command never stops the Coordinator.
C3_Containment ==
    ~(/\ server = "panicked"
      /\ crash.kind \in {"Handshake", "Echo", "Close"}
      /\ crash.call \in {"write", "shutdown"})

\* C4 as claimed: a connection whose upgrade request was rejected has sent no
\* command and is not in the Registry.
C4_NoCommandSent ==
    \A c \in Conns : wpc[c] = "rejected" => sent[c] = <<>> /\ ~Registered(c)

\* C4: a connection whose upgrade request was rejected has sent the Connect
\* command, which precedes the reading of the request, and no other command.
C4_OnlyConnectSent ==
    \A c \in Conns : wpc[c] = "rejected" => sent[c] = <<"Connect">>

\* C4 witness: a rejected connection holds its peer IP in the Registry
C4_Witness ==
    \E c \in Conns : wpc[c] = "rejected" /\ Registered(c)

\* C5: after a Worker has sent Close it sends no further command.
C5_CloseIsLast ==
    \A c \in Conns : \A i \in 1..Len(sent[c]) :
        sent[c][i] = "Close" => i = Len(sent[c])

\* the whole output of one command
OutputOf(comm) ==
    CASE comm.kind = "Handshake" -> Response(comm.accept)
      [] comm.kind = "Echo" -> Frame(serialize("Text", NoMask, comm.text).bytes)
      [] comm.kind = "Close" ->
            Frame(serialize("Close", NoMask, CloseBuffer(comm.status, comm.reason)).bytes)
      [] OTHER -> Frame(<<>>)

\* C6: every step that writes to a socket, shuts one down or changes the
\* Registry is a step of the Coordinator processing the one command at the
\* head of the channel, no Worker moving in it; it writes and shuts down
\* only on that command's connection, and what it writes is that command's
\* whole output, appended to what was written before.
C6_SingleWriter ==
    [][(out' # out \/ shut' # shut \/ clients' # clients) =>
          /\ server = "running" /\ chan # <<>> /\ chan' = Tail(chan)
          /\ wpc' = wpc /\ sent' = sent
          /\ LET comm == Head(chan)
                 c == comm.conn
             IN  /\ handled' = [handled EXCEPT ![c] = Append(@, comm.kind)]
                 /\ \A d \in Conns \ {c} : out'[d] = out[d] /\ shut'[d] = shut[d]
                 /\ out'[c] \in {out[c], Append(out[c], OutputOf(comm))}]_vars

\* C6 witness: two connections have both been written to, one of them by
\* more than one command
C6_Witness ==
    \E c \in Conns, d \in Conns :
        c # d /\ Len(out[c]) >= 2 /\ Len(out[d]) >= 1

(***************************************************************************)
(* Properties of the frame codec.                                          *)
(***************************************************************************)
\* C7: for every valid UTF-8 string s of fewer than 126 bytes, read of the
\* bytes of serialize(Text, no mask, s) returns Text(s) and consumes exactly
\* those bytes.
C7_TextRoundTrip ==
    (/\ cstage = "roundtrip"
     /\ cin.opcode = "Text"
     /\ Utf8Valid(cin.payload)
     /\ Len(cin.payload) < 126)
        => /\ cenc[2].tag = "Ok"
           /\ cref = [tag |-> "Ok", err |-> "", packet |-> PacketText(cin.payload),
                      used |-> Len(cenc[2].bytes)]

C7_Witness ==
    /\ cstage = "roundtrip"
    /\ cin.opcode = "Text"
    /\ cin.payload = Fill(125)
    /\ cref.tag = "Ok"
    /\ cref.packet = PacketText(Fill(125))
    /\ cref.used = 127

\* C8: for every mask key and every payload of fewer than 126 bytes, read of
\* the frame serialize produces with the key has the same outcome, and the
\* same Packet, as read of the frame serialize produces without a key for
\* the same opcode and payload.
C8_MaskUndone ==
    (/\ cstage = "roundtrip"
     /\ cin.mask # NoMask
     /\ Len(cin.payload) < 126)
        => /\ cenc[2].tag = "Ok"
           /\ cout.tag = cref.tag
           /\ cout.err = cref.err
           /\ cout.packet = cref.packet

C8_Witness ==
    /\ cstage = "roundtrip"
    /\ cin = [opcode |-> "Text", mask |-> SampleMask, payload |-> <<195, 169>>]
    /\ cenc[1].bytes = <<129, 130, 1, 2, 3, 4, 194, 171>>
    /\ cenc[2].bytes = <<129, 2, 195, 169>>
    /\ cout.tag = "Ok"
    /\ cout.packet = PacketText(<<195, 169>>)

\* C9: a Text message laid out in two or more frames (Text with fin clear,
\* then Continuation frames, the last with fin set; any cut points, empty
\* and individually masked fragments included) reads as the same payload
\* sent in one Text frame with fin set.
C9_Fragmentation ==
    (/\ cstage = "reassembled"
     /\ cdamage = NoDamage
     /\ cin.opcode = "Text"
     /\ Len(cframes) >= 2)
        => /\ cout.tag = cref.tag
           /\ cout.err = cref.err
           /\ cout.packet = cref.packet
           /\ cout.used = Len(Flatten(cframes))
           /\ Utf8Valid(cin.payload) => cout.packet = PacketText(cin.payload)

C9_Witness ==
    /\ cstage = "reassembled"
    /\ cdamage = NoDamage
    /\ cin.opcode = "Text"
    /\ cin.payload = <<195, 169>>
    /\ Len(cframes) = 3
    /\ Len(cframes[1]) = 7
    /\ cframes[2] = <<0, 0>>
    /\ cframes[3] = <<128, 1, 169>>
    /\ cout.tag = "Ok"
    /\ cout.packet = PacketText(<<195, 169>>)

\* C10: read fails with ReservedBits on every frame, first or continuation,
\* whose first byte has one of bits 6-4 set, and with Length on every frame
\* whose 64-bit length has its top bit set; it returns no Packet and has
\* consumed nothing after the frame's header.
C10_Rejected ==
    (/\ cstage = "reassembled"
     /\ cdamage # NoDamage
     /\ (cdamage.rsv # 0 \/ cdamage.over))
        => LET before == Flatten(SubSeq(cframes, 1, cdamage.k - 1))
               header == IF cdamage.rsv # 0 THEN 2 ELSE 10
           IN  cout = ReadErr("Err",
                              IF cdamage.rsv # 0 THEN "ReservedBits" ELSE "Length",
                              Len(before) + header)

\* the opcode values with no Opcode (packet.rs 40-52)
ReservedOpcodes == (3..7) \cup (11..15)

\* C11: for every byte sequence read returns a Packet or an Error and never
\* aborts; a frame with a reserved opcode (3-7, 11-15) and a Close message
\* with a payload of fewer than 2 bytes are answered with an Error.
C11_Total ==
    cstage \in {"roundtrip", "reassembled"}
        => /\ cout.tag \in {"Ok", "Err"}
           /\ (cdamage.k = 1 /\ cdamage.opnib \in ReservedOpcodes) => cout.tag = "Err"
           /\ (/\ cdamage = NoDamage
               /\ cin.opcode = "Close"
               /\ Len(cin.payload) < 2) => cout.tag = "Err"

\* C12: for every opcode and payload, lengths of 126 and more included,
\* serialize returns a frame whose mask bit is set exactly when a mask key
\* is given and whose length field decodes to the payload's length.
C12_EncoderHeader ==
    cstage = "encoded"
        => \A i \in 1..2 :
              LET key == IF i = 1 THEN cin.mask ELSE NoMask
                  m == read_metadata(cenc[i].bytes, 0)
              IN  /\ cenc[i].tag = "Ok"
                  /\ m.tag = "Ok"
                  /\ m.meta.masked = (key # NoMask)
                  /\ m.meta.len = Len(cin.payload)

\* C15: for every input the match of read on the first frame's opcode is
\* never reached with Continuation: a message whose first frame carries
\* opcode 0 in an otherwise well-formed header does not end in the
\* unreachable!() of that arm.
C15_ContinuationFirst ==
    /\ (cstage = "roundtrip" /\ cin.opcode = "Continuation")
          => ~(cout.tag = "Panic" /\ cout.err = "unreachable")
    /\ (cstage = "reassembled" /\ cdamage.k = 1 /\ cdamage.opnib = 0
          /\ cdamage.rsv = 0 /\ ~cdamage.over)
          => ~(cout.tag = "Panic" /\ cout.err = "unreachable")

\* C16: after a first frame with fin clear, the first following frame whose
\* opcode is not Continuation makes read fail with Error::Opcode, with that
\* frame's header consumed and its payload not, and no Packet returned.
C16_MidFragmentOpcode ==
    (/\ cstage = "reassembled"
     /\ cdamage.k >= 2
     /\ cdamage.rsv = 0
     /\ ~cdamage.over
     /\ cdamage.opnib \notin {-1, 0})
        => LET before == Flatten(SubSeq(cframes, 1, cdamage.k - 1))
           IN  cout = ReadErr("Err", "Opcode", Len(before) + 2)

\* C17: a Close message, in one frame or fragmented, reads as the status
\* code in the first 2 bytes of the whole accumulated payload and the
\* reason in all the bytes after them, an empty reason being absent.
C17_CloseAccumulated ==
    (/\ cstage = "reassembled"
     /\ cdamage = NoDamage
     /\ cin.opcode = "Close"
     /\ Len(cin.payload) >= 2
     /\ Utf8Valid(Slice(cin.payload, 2, Len(cin.payload) - 2)))
        => LET rest == Slice(cin.payload, 2, Len(cin.payload) - 2)
           IN  /\ cout.tag = "Ok"
               /\ cout.packet = PacketClose(U16FromBe(Slice(cin.payload, 0, 2)),
                                            IF rest = <<>> THEN None ELSE Some(rest))

(***************************************************************************)
(* Further properties of the Worker / Coordinator model.                   *)
(***************************************************************************)
\* the Coordinator is about to receive a command of kind `kind`
Receiving(kind) == server = "running" /\ chan # <<>> /\ Head(chan).kind = kind

\* no command of connection c waits in the channel of a running Coordinator
Quiet(c) == server = "running" /\ \A i \in 1..Len(chan) : chan[i].conn # c

\* C13: processing Close(handle, status, reason) of a registered connection
\* writes one Close frame (the status in 2 big-endian bytes, then the
\* reason), shuts the socket down and leaves the Registry without an entry
\* for that peer IP, so that a later Connect from that IP is registered.
C13_CloseProcessing ==
    [][(Receiving("Close") /\ Registered(Head(chan).conn) /\ chan' = Tail(chan))
          => LET comm == Head(chan)
                 c == comm.conn
                 reason == IF comm.reason.some THEN comm.reason.text ELSE <<>>
                 frame == <<136, 2 + Len(reason), comm.status \div 256,
                            comm.status % 256>> \o reason
             IN  /\ out'[c] = Append(out[c], Frame(frame))
                 /\ shut'[c]
                 /\ ~contains_key(clients', peerIp[c])]_vars

\* C14: once the Worker of a connection has stopped on a rejected request,
\* a decode error or a read error, and the Coordinator has handled every
\* command of that connection, the connection is out of the Registry (the
\* Coordinator holds no handle of its socket, its peer IP is free).
C14_Dropped ==
    \A c \in Conns :
       (wpc[c] \in {"rejected", "done"} /\ Quiet(c)) => ~Registered(c)

C19_NoWriteAfterShutdown ==
    ~(server = "panicked" /\ crash.call = "write" /\ shut[crash.conn])

\* an Echo frame among the writes on a socket
IsEchoFrame(w) == w.what = "frame" /\ w.bytes[1] = 129

\* C20: for each connection the Echo frames written on its socket are, in
\* order and one for one, frames that read as the Text messages its Worker
\* decoded, and they come after the handshake response.
C20_EchoFidelity ==
    \A c \in Conns :
       LET echoes == SelectSeq(out[c], IsEchoFrame)
       IN  /\ Len(echoes) <= Len(texts[c])
           /\ \A i \in 1..Len(echoes) :
                 LET r == read(echoes[i].bytes)
                 IN  r.tag = "Ok" /\ r.packet = PacketText(texts[c][i])
           /\ out[c] # <<>> => out[c][1].what = "response"

====
